---- MODULE Spec2Model ----
(***************************************************************************)
(* Model of tcp-connection-hijack-reset-dst.py: the endpoint resolver      *)
(* (get_endpoints), the ipset hook (ipset_update), the TCPBreaker          *)
(* automaton (st_seek / st_collect / st_rst_send) and main().              *)
(*                                                                         *)
(* Python None is the empty tuple; an optional packet is <<>> or <<pkt>>.  *)
(* An endpoint is <<address, port>>.                                       *)
(***************************************************************************)
EXTENDS Integers, Sequences, FiniteSets, TLC

\* ------------------------------------------------------------------ bounds
\* Longest /proc/net/tcp table (rows after the header line).
MaxRows == 2
\* History counters saturate here.
MaxCount == 2

\* Host-order addresses as /proc/net/tcp prints them (already parsed from
\* hex): 0x0100007F is 127.0.0.1, 0x0500000A is 10.0.0.5.
Addrs == {16777343, 83886090}
Ports == {80, 4000}
SeqNums == {1000, 2000}
Windows == {64, 128}

None == <<>>

\* ------------------------------------------------------------ pure helpers
\* inet_ntoa(struct.pack('<I', a & 0xffffffff)): least significant byte first.
\* The mask leaves the 32-bit values parsed from eight hex digits unchanged.
inet_ntoa(a) ==
  << a % 256, (a \div 256) % 256, (a \div 65536) % 256, (a \div 16777216) % 256 >>

IPs == { inet_ntoa(a) : a \in Addrs }

\* A parsed row of the table: (address, port) of fields 1 and 2.
Rows == [ local : Addrs \X Ports, remote : Addrs \X Ports ]

SeqsUpTo(S, n) == UNION { [1..k -> S] : k \in 0..n }

Tables == SeqsUpTo(Rows, MaxRows)

OptPorts == {None} \cup { <<p>> : p \in Ports }

\* A captured IP/TCP packet, the fields the program reads.
Packets == [ src : IPs, dst : IPs, sport : Ports, dport : Ports,
             seq : SeqNums, ack : SeqNums, window : Windows ]

Inc(n) == IF n < MaxCount THEN n + 1 ELSE n

\* --------------------------------------------------------------- resolver
\* ep[1] == port, where port is None or <<p>>.
PortIs(ep, port) == port # None /\ ep[2] = port[1]

\* The rows get_endpoints_by_port yields, in table order.
get_endpoints_by_port(table, port_local, port_remote) ==
  SelectSeq(table, LAMBDA row : PortIs(row.local, port_local)
                                 \/ PortIs(row.remote, port_remote))

\* get_endpoints that takes the first of several matches.
get_endpoints_first_match(table, port_local, port_remote) ==
  LET matches == get_endpoints_by_port(table, port_local, port_remote)
  IN  IF port_local = None /\ port_remote = None
        THEN [ exc |-> "AssertionError", args |-> <<>>, value |-> None ]
      ELSE IF matches = <<>>
        THEN [ exc |-> "ConnNotFound", args |-> <<>>, value |-> None ]
      ELSE [ exc |-> "", args |-> <<>>,
             value |-> << << inet_ntoa(matches[1].local[1]), matches[1].local[2] >>,
                          << inet_ntoa(matches[1].remote[1]), matches[1].remote[2] >> >> ]

\* get_endpoints without a pid: the exception raised (with its arguments) or
\* the pair. The assert is the one get_endpoints_by_port starts with.
get_endpoints(table, port_local, port_remote) ==
  LET matches == get_endpoints_by_port(table, port_local, port_remote)
  IN  IF port_local = None /\ port_remote = None
        THEN [ exc |-> "AssertionError", args |-> <<>>, value |-> None ]
      ELSE IF matches = <<>>
        THEN [ exc |-> "ConnNotFound", args |-> <<>>, value |-> None ]
      ELSE IF Len(matches) > 1
        THEN [ exc |-> "ConnMultipleMatches", args |-> matches, value |-> None ]
      ELSE [ exc |-> "", args |-> <<>>,
             value |-> << << inet_ntoa(matches[1].local[1]), matches[1].local[2] >>,
                          << inet_ntoa(matches[1].remote[1]), matches[1].remote[2] >> >> ]

\* ---------------------------------------------------------- TCPBreaker
\* The automaton is a record: its state, the session attributes, the timeout
\* of the current stay in st_seek ("running", "due" once its second has
\* passed, "spent" once it has fired), the segments handed to send(), the
\* exception that ended run(), and history fields (n_collect and n_term count
\* the entries into st_collect and st_rst_send; event and path are the last
\* event delivered and the states entered while handling it).

\* TCPBreaker.__init__ followed by run() entering the initial state.
TCPBreaker(port_local, port_remote, timeout) ==
  [ state |-> "st_seek",
    ss_filter_port_local |-> port_local, ss_filter_port_remote |-> port_remote,
    ss_timeout |-> timeout, ss_remote |-> None, ss_intercept |-> None,
    timer |-> "running", sent |-> <<>>, raised |-> "",
    n_collect |-> 0, n_term |-> 0, event |-> "", path |-> <<>> ]

\* No automaton yet.
NoBreaker ==
  [ state |-> "none",
    ss_filter_port_local |-> None, ss_filter_port_remote |-> None,
    ss_timeout |-> FALSE, ss_remote |-> None, ss_intercept |-> None,
    timer |-> "spent", sent |-> <<>>, raised |-> "",
    n_collect |-> 0, n_term |-> 0, event |-> "", path |-> <<>> ]

\* pkt_filter that tests the source port alone.
pkt_filter_sport_only(s, pkt) ==
  IF pkt.sport \in {s.ss_filter_port_local, s.ss_filter_port_remote}
    THEN IF pkt.sport = s.ss_filter_port_local THEN pkt.dst ELSE pkt.src
    ELSE None

\* pkt_filter that answers the destination address whatever the direction.
pkt_filter_always_dst(s, pkt) ==
  IF {pkt.sport, pkt.dport} = {s.ss_filter_port_local, s.ss_filter_port_remote}
    THEN pkt.dst
    ELSE None

\* pkt_filter: the "remote" address, or None for the KeyError.
pkt_filter(s, pkt) ==
  IF {pkt.sport, pkt.dport} = {s.ss_filter_port_local, s.ss_filter_port_remote}
    THEN IF pkt.sport = s.ss_filter_port_local THEN pkt.dst ELSE pkt.src
    ELSE None

\* ordered that keeps (v1, v2) whatever the direction.
ordered_never_swaps(v1, v2, pkt_dir) == <<v1, v2>>

\* The lambda of st_rst_send: (v1, v2) kept or swapped.
ordered(v1, v2, pkt_dir) == IF pkt_dir THEN <<v1, v2>> ELSE <<v2, v1>>

\* make_rst without the final rst[TCP].ack = 0: ack stays as TCP(...) got it.
make_rst_keeps_ack(pkt, ss_remote) ==
  LET pkt_dir == (pkt.dst = ss_remote)
      ip      == ordered(pkt.src, pkt.dst, pkt_dir)
      port    == ordered(pkt.sport, pkt.dport, pkt_dir)
      num     == ordered(pkt.seq, pkt.ack, pkt_dir)
  IN  [ src |-> ip[1], dst |-> ip[2], sport |-> port[1], dport |-> port[2],
        seq |-> num[1], ack |-> num[2], flags |-> "R", window |-> pkt.window ]

\* The segment st_rst_send builds, after rst[TCP].ack = 0.
make_rst(pkt, ss_remote) ==
  LET pkt_dir == (pkt.dst = ss_remote)
      ip      == ordered(pkt.src, pkt.dst, pkt_dir)
      port    == ordered(pkt.sport, pkt.dport, pkt_dir)
      num     == ordered(pkt.seq, pkt.ack, pkt_dir)
  IN  [ src |-> ip[1], dst |-> ip[2], sport |-> port[1], dport |-> port[2],
        seq |-> num[1], ack |-> 0, flags |-> "R", window |-> pkt.window ]

\* State st_seek: only logs, then waits for a packet or the timeout, which is
\* counted from this entry.
st_seek(s) ==
  [ s EXCEPT !.state = "st_seek", !.timer = "running", !.path = Append(@, "st_seek") ]

\* st_rst_send that goes back to st_seek after a failed send, to try again.
st_rst_send_retries(s, ok) ==
  LET s1 == [ s EXCEPT !.n_term = Inc(@), !.path = Append(@, "st_rst_send") ]
  IN  IF s.ss_intercept = None
        THEN [ s1 EXCEPT !.state = "stopped", !.raised = "TypeError" ]
      ELSE IF ok
        THEN [ s1 EXCEPT !.state = "stopped",
                         !.sent = Append(@, make_rst(s.ss_intercept[1], s.ss_remote)) ]
      ELSE st_seek([ s1 EXCEPT !.sent = Append(@, make_rst(s.ss_intercept[1], s.ss_remote)) ])

\* State st_rst_send: build the reset and send() it (ok: the send succeeded),
\* then SIGINT to the own process; the automaton never leaves this state.
\* Without a captured packet itemgetter raises TypeError before any send.
st_rst_send(s, ok) ==
  LET s1 == [ s EXCEPT !.state = "stopped", !.n_term = Inc(@),
                       !.path = Append(@, "st_rst_send") ]
  IN  IF s.ss_intercept = None
        THEN [ s1 EXCEPT !.raised = "TypeError" ]
        ELSE [ s1 EXCEPT !.sent = Append(@, make_rst(s.ss_intercept[1], s.ss_remote)),
                         !.raised = IF ok THEN "" ELSE "socket.error" ]

\* st_collect that always goes back to st_seek, whatever ss_timeout is.
st_collect_always_seek(s, pkt, ok) ==
  st_seek([ s EXCEPT !.ss_intercept = <<pkt>>,
                     !.n_collect = Inc(@),
                     !.path = Append(@, "st_collect") ])

\* st_collect that keeps the first packet it was given.
st_collect_keeps_first(s, pkt, ok) ==
  LET s1 == [ s EXCEPT !.ss_intercept = IF @ = None THEN <<pkt>> ELSE @,
                       !.n_collect = Inc(@),
                       !.path = Append(@, "st_collect") ]
  IN  IF ~ s1.ss_timeout THEN st_rst_send(s1, ok) ELSE st_seek(s1)

\* State st_collect: keep the packet, then st_rst_send or back to st_seek.
st_collect(s, pkt, ok) ==
  LET s1 == [ s EXCEPT !.ss_intercept = <<pkt>>,
                       !.n_collect = Inc(@),
                       !.path = Append(@, "st_collect") ]
  IN  IF ~ s1.ss_timeout THEN st_rst_send(s1, ok) ELSE st_seek(s1)

\* break_link without its test: the last writer wins.
break_link_last_wins(s, remote_ip) == [ s EXCEPT !.ss_remote = remote_ip ]

\* break_link that only logs.
break_link_never_records(s, remote_ip) == s

\* Action of check_packet: first writer wins.
break_link(s, remote_ip) ==
  IF s.ss_remote = None THEN [ s EXCEPT !.ss_remote = remote_ip ] ELSE s

\* check_packet that lets the KeyError of pkt_filter through.
check_packet_raises(s, pkt, ok) ==
  LET s0 == [ s EXCEPT !.event = "packet", !.path = <<>> ]
      remote_ip == pkt_filter(s, pkt)
  IN  IF remote_ip = None THEN [ s0 EXCEPT !.state = "stopped", !.raised = "KeyError" ]
      ELSE st_collect(break_link(s0, remote_ip), pkt, ok)

\* Receive condition of st_seek, with its action and the states it leads to.
check_packet(s, pkt, ok) ==
  LET s0 == [ s EXCEPT !.event = "packet", !.path = <<>> ]
      remote_ip == pkt_filter(s, pkt)
  IN  IF remote_ip = None THEN s0
      ELSE st_collect(break_link(s0, remote_ip), pkt, ok)

\* interception_done that never leaves st_seek.
interception_done_stays(s, ok) ==
  [ s EXCEPT !.event = "timer", !.path = <<>>, !.timer = "spent" ]

\* interception_done without its test of ss_remote and ss_intercept.
interception_done_unguarded(s, ok) ==
  st_rst_send([ s EXCEPT !.event = "timer", !.path = <<>>, !.timer = "spent" ], ok)

\* Timeout condition of st_seek: it fires once in a stay.
interception_done(s, ok) ==
  LET s0 == [ s EXCEPT !.event = "timer", !.path = <<>>, !.timer = "spent" ]
  IN  IF s.ss_remote # None /\ s.ss_intercept # None THEN st_rst_send(s0, ok) ELSE s0

\* ------------------------------------------------------------------ state
VARIABLES
  pc,            \* main(): "resolve", "add", "run", "del", "exit"
  ipset_name,    \* optz.ipset_name: None or <<name>>
  local, remote, \* the resolved endpoints, None before
  exc,           \* the exception in flight ("" for none)
  exc_args,      \* its arguments (the candidates of ConnMultipleMatches)
  ipset_calls,   \* the ipset commands run so far: [cmd, name, ip, port, ok]
  ipset,         \* the members of the kernel set
  atmt,          \* the TCPBreaker automaton
  tbl, arg_port_local, arg_port_remote, \* get_endpoints called on its own
  n_matched,     \* history: delivered packets of the connection's port pair
  onlyConn,      \* history: each of them was a segment of the connection
  end_cause,     \* history: why run() ended: "", "rst", "send_failed", "interrupted"
  last_match,    \* history: the last delivered packet of the connection's port pair
  ignored        \* history: the last event delivered a packet of another port pair

vars == << pc, ipset_name, local, remote, exc, exc_args, ipset_calls, ipset,
           atmt, tbl, arg_port_local, arg_port_remote, n_matched, onlyConn, end_cause,
           last_match, ignored >>

\* ------------------------------------------------------------------- main
\* main() at line 196, options parsed.
Init ==
  /\ pc = "resolve"
  /\ ipset_name \in {None, <<"blocked">>}
  /\ local = None /\ remote = None
  /\ exc = "" /\ exc_args = <<>>
  /\ ipset_calls = <<>> /\ ipset = {}
  /\ atmt = NoBreaker
  /\ tbl = <<>> /\ arg_port_local = None /\ arg_port_remote = None
  /\ n_matched = 0 /\ onlyConn = TRUE /\ end_cause = ""
  /\ last_match = None /\ ignored = FALSE

\* main_resolve that takes ConnMultipleMatches as a warning and goes on with
\* the first candidate.
main_resolve_warns_on_ambiguity ==
  /\ pc = "resolve"
  /\ \E table \in Tables, port \in Ports, remote_port \in BOOLEAN :
       LET r == get_endpoints(table, IF remote_port THEN None ELSE <<port>>,
                                     IF remote_port THEN <<port>> ELSE None)
       IN  IF r.exc = "ConnMultipleMatches"
             THEN /\ exc' = r.exc /\ exc_args' = r.args /\ pc' = "add"
                  /\ local' = << inet_ntoa(r.args[1].local[1]), r.args[1].local[2] >>
                  /\ remote' = << inet_ntoa(r.args[1].remote[1]), r.args[1].remote[2] >>
           ELSE IF r.exc # ""
             THEN /\ exc' = r.exc /\ exc_args' = r.args /\ pc' = "exit"
                  /\ UNCHANGED << local, remote >>
             ELSE /\ local' = r.value[1] /\ remote' = r.value[2] /\ pc' = "add"
                  /\ UNCHANGED << exc, exc_args >>
  /\ UNCHANGED << ipset_name, ipset_calls, ipset, atmt, tbl, arg_port_local,
                  arg_port_remote, n_matched, onlyConn, end_cause,
                  last_match, ignored >>

\* Lines 196-198: --port with or without --remote-port, on the table read
\* from /proc/net/tcp. (The --pid lookup ends in the same three outcomes and
\* is left out.)
main_resolve ==
  /\ pc = "resolve"
  /\ \E table \in Tables, port \in Ports, remote_port \in BOOLEAN :
       LET r == get_endpoints(table, IF remote_port THEN None ELSE <<port>>,
                                     IF remote_port THEN <<port>> ELSE None)
       IN  IF r.exc # ""
             THEN /\ exc' = r.exc /\ exc_args' = r.args /\ pc' = "exit"
                  /\ UNCHANGED << local, remote >>
             ELSE /\ local' = r.value[1] /\ remote' = r.value[2] /\ pc' = "add"
                  /\ UNCHANGED << exc, exc_args >>
  /\ UNCHANGED << ipset_name, ipset_calls, ipset, atmt, tbl, arg_port_local,
                  arg_port_remote, n_matched, onlyConn, end_cause,
                  last_match, ignored >>

\* ipset_update(cmd, name, ip, port): nothing without a name; else the ipset
\* command runs and exits zero (ok) or not.
ipset_update(cmd, name, ep, ok) ==
  IF name = None
    THEN UNCHANGED << ipset_calls, ipset >>
    ELSE /\ ipset_calls' = Append(ipset_calls,
                                  [ cmd |-> cmd, name |-> name[1], ep |-> ep, ok |-> ok ])
         /\ ipset' = IF ~ ok THEN ipset
                     ELSE IF cmd = "add" THEN ipset \cup {ep} ELSE ipset \ {ep}

\* ipset_update raises RuntimeError.
ipset_failed(name, ok) == name # None /\ ~ ok

\* main_add with a failed ipset command taken as a warning.
main_add_ignores_failure ==
  /\ pc = "add"
  /\ \E ok \in BOOLEAN : ipset_update("add", ipset_name, remote, ok)
  /\ pc' = "run"
  /\ UNCHANGED << ipset_name, local, remote, exc, exc_args, atmt, tbl, arg_port_local,
                  arg_port_remote, n_matched, onlyConn, end_cause,
                  last_match, ignored >>

\* Line 204: ipset_update('add', optz.ipset_name, *remote).
main_add ==
  /\ pc = "add"
  /\ \E ok \in BOOLEAN :
       /\ ipset_update("add", ipset_name, remote, ok)
       /\ IF ipset_failed(ipset_name, ok)
            THEN exc' = "RuntimeError" /\ pc' = "exit"
            ELSE exc' = exc /\ pc' = "run"
  /\ UNCHANGED << ipset_name, local, remote, exc_args, atmt, tbl, arg_port_local,
                  arg_port_remote, n_matched, onlyConn, end_cause,
                  last_match, ignored >>

\* main_run with the timeout argument left at its default.
main_run_persist_off ==
  /\ pc = "run" /\ atmt.state = "none"
  /\ atmt' = TCPBreaker(local[2], remote[2], FALSE)
  /\ UNCHANGED << pc, ipset_name, local, remote, exc, exc_args, ipset_calls, ipset,
                  tbl, arg_port_local, arg_port_remote, n_matched, onlyConn, end_cause,
                  last_match, ignored >>

\* Line 205: TCPBreaker(port_local=local[1], port_remote=remote[1], timeout=True).run()
main_run ==
  /\ pc = "run" /\ atmt.state = "none"
  /\ atmt' = TCPBreaker(local[2], remote[2], TRUE)
  /\ UNCHANGED << pc, ipset_name, local, remote, exc, exc_args, ipset_calls, ipset,
                  tbl, arg_port_local, arg_port_remote, n_matched, onlyConn, end_cause,
                  last_match, ignored >>

\* main_del without the finally: the del runs only after a reset was sent.
main_del_on_success ==
  /\ pc = "del"
  /\ IF end_cause = "rst"
       THEN \E ok \in BOOLEAN :
              /\ ipset_update("del", ipset_name, local, ok)
              /\ exc' = IF ipset_failed(ipset_name, ok) THEN "RuntimeError" ELSE exc
       ELSE UNCHANGED << ipset_calls, ipset, exc >>
  /\ pc' = "exit"
  /\ UNCHANGED << ipset_name, local, remote, exc_args, atmt, tbl, arg_port_local,
                  arg_port_remote, n_matched, onlyConn, end_cause,
                  last_match, ignored >>

\* Line 206: finally: ipset_update('del', optz.ipset_name, *local).
main_del ==
  /\ pc = "del"
  /\ \E ok \in BOOLEAN :
       /\ ipset_update("del", ipset_name, local, ok)
       /\ exc' = IF ipset_failed(ipset_name, ok) THEN "RuntimeError" ELSE exc
  /\ pc' = "exit"
  /\ UNCHANGED << ipset_name, local, remote, exc_args, atmt, tbl, arg_port_local,
                  arg_port_remote, n_matched, onlyConn, end_cause,
                  last_match, ignored >>

\* ------------------------------------------------------- automaton events
\* pkt is a segment of the connection (local, remote), in either direction.
IsConnSegment(pkt) ==
  \/ /\ pkt.src = local[1] /\ pkt.sport = local[2]
     /\ pkt.dst = remote[1] /\ pkt.dport = remote[2]
  \/ /\ pkt.src = remote[1] /\ pkt.sport = remote[2]
     /\ pkt.dst = local[1] /\ pkt.dport = local[2]

\* The packet's unordered port pair is the connection's.
Belongs(pkt) == {pkt.sport, pkt.dport} = {local[2], remote[2]}

\* The automaton moved to s while handling an event. Once st_rst_send has run,
\* run() is left by the exception it raised or by the KeyboardInterrupt of the
\* SIGINT the state sends to its own process.
Deliver(s) ==
  /\ atmt' = s
  /\ IF s.state = "stopped"
       THEN /\ pc' = "del"
            /\ exc' = IF s.raised # "" THEN s.raised ELSE "KeyboardInterrupt"
            /\ end_cause' = IF s.raised # "" THEN "send_failed" ELSE "rst"
       ELSE UNCHANGED << pc, exc, end_cause >>

\* A captured packet is delivered in st_seek. The outcome of send() is drawn
\* where the packet can lead to st_rst_send.
recv_packet ==
  /\ pc = "run" /\ atmt.state = "st_seek"
  /\ \E pkt \in Packets, ok \in (IF atmt.ss_timeout THEN {TRUE} ELSE BOOLEAN) :
       /\ Deliver(check_packet(atmt, pkt, ok))
       /\ n_matched' = IF Belongs(pkt) THEN Inc(n_matched) ELSE n_matched
       /\ onlyConn' = (onlyConn /\ (Belongs(pkt) => IsConnSegment(pkt)))
       /\ last_match' = IF Belongs(pkt) THEN <<pkt>> ELSE last_match
       /\ ignored' = ~ Belongs(pkt)
  /\ UNCHANGED << ipset_name, local, remote, exc_args, ipset_calls, ipset,
                  tbl, arg_port_local, arg_port_remote >>

\* A second passes in st_seek.
tick ==
  /\ pc = "run" /\ atmt.state = "st_seek" /\ atmt.timer = "running"
  /\ atmt' = [ atmt EXCEPT !.timer = "due" ]
  /\ UNCHANGED << pc, ipset_name, local, remote, exc, exc_args, ipset_calls, ipset,
                  tbl, arg_port_local, arg_port_remote, n_matched, onlyConn, end_cause,
                  last_match, ignored >>

\* The timeout of st_seek fires.
timeout_st_seek ==
  /\ pc = "run" /\ atmt.state = "st_seek" /\ atmt.timer = "due"
  /\ \E ok \in BOOLEAN : Deliver(interception_done(atmt, ok))
  /\ UNCHANGED << ipset_name, local, remote, exc_args, ipset_calls, ipset,
                  tbl, arg_port_local, arg_port_remote, n_matched, onlyConn,
                  last_match >>
  /\ ignored' = FALSE

\* SIGINT from outside while run() waits in st_seek.
interrupt ==
  /\ pc = "run" /\ atmt.state = "st_seek"
  /\ atmt' = [ atmt EXCEPT !.state = "stopped", !.event = "sigint", !.path = <<>> ]
  /\ exc' = "KeyboardInterrupt" /\ end_cause' = "interrupted" /\ pc' = "del"
  /\ UNCHANGED << ipset_name, local, remote, exc_args, ipset_calls, ipset,
                  tbl, arg_port_local, arg_port_remote, n_matched, onlyConn,
                  last_match >>
  /\ ignored' = FALSE

\* -------------------------------------------------------- specifications
\* The program: main() from the resolver to the exit.
Next ==
  \/ main_resolve
  \/ main_add
  \/ main_run
  \/ recv_packet
  \/ tick
  \/ timeout_st_seek
  \/ interrupt
  \/ main_del

Spec == Init /\ [][Next]_vars

\* The automaton on its own, as TCPBreaker(port_local, port_remote, timeout).run()
\* against the connection (local, remote), in either persist mode.
Endpoints == IPs \X Ports

InitBreaker ==
  /\ pc = "run"
  /\ ipset_name = None
  /\ local \in Endpoints /\ remote \in Endpoints
  /\ exc = "" /\ exc_args = <<>>
  /\ ipset_calls = <<>> /\ ipset = {}
  /\ \E timeout \in BOOLEAN : atmt = TCPBreaker(local[2], remote[2], timeout)
  /\ tbl = <<>> /\ arg_port_local = None /\ arg_port_remote = None
  /\ n_matched = 0 /\ onlyConn = TRUE /\ end_cause = ""
  /\ last_match = None /\ ignored = FALSE

NextBreaker ==
  \/ recv_packet
  \/ tick
  \/ timeout_st_seek
  \/ interrupt

SpecBreaker == InitBreaker /\ [][NextBreaker]_vars

\* Both together: main(), or the automaton started on its own in either
\* persist mode, each up to the end of main().
SpecAnyMode == (Init \/ InitBreaker) /\ [][Next]_vars

\* The resolver on its own: get_endpoints(port_local=..., port_remote=...) on a
\* table.
InitResolver ==
  /\ pc = "get_endpoints"
  /\ ipset_name = None
  /\ local = None /\ remote = None
  /\ exc = "" /\ exc_args = <<>>
  /\ ipset_calls = <<>> /\ ipset = {}
  /\ atmt = NoBreaker
  /\ tbl \in Tables /\ arg_port_local \in OptPorts /\ arg_port_remote \in OptPorts
  /\ n_matched = 0 /\ onlyConn = TRUE /\ end_cause = ""
  /\ last_match = None /\ ignored = FALSE

call_get_endpoints ==
  /\ pc = "get_endpoints"
  /\ LET r == get_endpoints(tbl, arg_port_local, arg_port_remote)
     IN  /\ exc' = r.exc /\ exc_args' = r.args
         /\ local' = IF r.exc = "" THEN r.value[1] ELSE None
         /\ remote' = IF r.exc = "" THEN r.value[2] ELSE None
  /\ pc' = "returned"
  /\ UNCHANGED << ipset_name, ipset_calls, ipset, atmt, tbl, arg_port_local,
                  arg_port_remote, n_matched, onlyConn, end_cause,
                  last_match, ignored >>

NextResolver == call_get_endpoints

SpecResolver == InitResolver /\ [][NextResolver]_vars

\* ------------------------------------------------------------ properties
Rst == atmt.sent[1]
Captured == atmt.ss_intercept[1]

\* C1: whichever direction the captured segment of the connection travelled,
\* and whether or not the two addresses or the two ports are distinct, the
\* reset goes from the connection's local endpoint to its remote endpoint.
C1_ResetFromLocalToRemote ==
  (atmt.sent # <<>> /\ onlyConn) =>
     /\ << Rst.src, Rst.sport >> = local
     /\ << Rst.dst, Rst.dport >> = remote

\* q is the segment matching p in the other direction: endpoints exchanged,
\* seq and ack exchanged, every other field the same.
IsMirror(p, q) ==
  /\ q.src = p.dst /\ q.dst = p.src
  /\ q.sport = p.dport /\ q.dport = p.sport
  /\ q.seq = p.ack /\ q.ack = p.seq
  /\ q.window = p.window

\* The reset of a session of the same automaton that captures q alone.
ResetOfSessionOn(q) ==
  LET s0 == TCPBreaker(atmt.ss_filter_port_local, atmt.ss_filter_port_remote,
                       atmt.ss_timeout)
      s1 == check_packet(s0, q, TRUE)
      s2 == IF s1.state = "stopped" THEN s1 ELSE interception_done(s1, TRUE)
  IN  s2.sent[1]

\* C2: on a connection between two endpoints, the session whose last captured
\* segment is p and a session whose last captured segment is the matching
\* segment of the other direction forge the same segment, field by field.
C2_DirectionInvariant ==
  (atmt.sent # <<>> /\ onlyConn /\ local # remote) =>
     \A q \in Packets : IsMirror(Captured, q) => ResetOfSessionOn(q) = Rst

\* C3: with persist off, once st_collect has been entered st_rst_send has been
\* entered exactly once and exactly one reset has been handed to send(), and
\* nothing that follows adds another.
C3_ExactlyOneReset ==
  (~ atmt.ss_timeout /\ atmt.n_collect >= 1) =>
     /\ atmt.n_collect = 1 /\ atmt.n_term = 1 /\ Len(atmt.sent) = 1
     /\ atmt.state = "stopped"

C3_Witness ==
  /\ ~ atmt.ss_timeout /\ atmt.n_collect = 1 /\ Len(atmt.sent) = 1
  /\ atmt.path = << "st_collect", "st_rst_send" >>

\* C4: while no packet of the connection's port pair has been delivered the
\* machine stays in st_seek and sends nothing, and a timeout that fires while
\* ss_remote or ss_intercept is missing changes neither the state nor the
\* session and sends nothing.
C4_NoMatchStaysSeeking ==
  /\ [] ( (atmt.state # "none" /\ n_matched = 0 /\ end_cause # "interrupted") =>
            /\ atmt.state = "st_seek" /\ atmt.sent = <<>> /\ atmt.n_term = 0
            /\ atmt.ss_remote = None /\ atmt.ss_intercept = None )
  /\ [][ (timeout_st_seek /\ (atmt.ss_remote = None \/ atmt.ss_intercept = None)) =>
            /\ atmt'.state = "st_seek" /\ atmt'.sent = atmt.sent
            /\ atmt'.n_term = atmt.n_term
            /\ atmt'.ss_remote = atmt.ss_remote
            /\ atmt'.ss_intercept = atmt.ss_intercept ]_vars

C4_Witness ==
  /\ atmt.state = "st_seek" /\ atmt.event = "timer" /\ atmt.timer = "spent"
  /\ n_matched = 0 /\ atmt.sent = <<>>

\* The timeout is counted from the entry into st_seek and every packet that
\* leads back to st_seek restarts it: a second passes if nothing else happens
\* (tick), and a due timeout fires unless a packet is handled first.
LiveBreaker == SpecBreaker /\ WF_vars(tick) /\ WF_vars(timeout_st_seek)

Collected ==
  /\ atmt.ss_timeout /\ atmt.state = "st_seek"
  /\ atmt.ss_remote # None /\ atmt.ss_intercept # None

\* A packet is collected and the machine is back in st_seek.
Recollect == recv_packet /\ atmt'.path = << "st_collect", "st_seek" >>

\* C5: with persist on, once a packet has been collected the reset is
\* eventually sent (unless the run is interrupted from outside), however many
\* matching packets keep arriving.
C5_EventuallyTerminates ==
  Collected ~> (atmt.sent # <<>> \/ end_cause = "interrupted")

\* C5 as amended: the reset is eventually sent if matching packets stop
\* arriving.
C5_TerminatesOnceQuiet ==
  ([]<><<Recollect>>_vars) \/ C5_EventuallyTerminates

C5_Witness ==
  /\ atmt.ss_timeout /\ atmt.sent # <<>> /\ atmt.event = "timer"
  /\ atmt.n_collect >= 2 /\ end_cause = "rst"

\* C6: a reset is sent only after more than one matching segment has been
\* observed.
C6_NeverFromSingleGlimpse ==
  atmt.sent # <<>> => n_matched >= 2

\* C6 as amended: a reset is sent only after at least one matching segment has
\* been observed and collected; one is enough.
C6_OnlyAfterAMatch ==
  atmt.sent # <<>> =>
     /\ n_matched >= 1 /\ atmt.n_collect >= 1
     /\ atmt.ss_intercept # None /\ Belongs(Captured)

C6_Witness == atmt.sent # <<>> /\ n_matched = 1 /\ atmt.n_collect = 1

Calls(cmd) == { i \in DOMAIN ipset_calls : ipset_calls[i].cmd = cmd }

\* C7: with a set name given, the endpoint added before the interception and
\* the endpoint removed after it are both the connection's local endpoint.
C7_AddAndRemoveLocalEndpoint ==
  \A i \in DOMAIN ipset_calls : ipset_calls[i].ep = local

AddSucceeded ==
  ipset_calls # <<>> /\ ipset_calls[1].cmd = "add" /\ ipset_calls[1].ok

AddFailed ==
  ipset_calls # <<>> /\ ipset_calls[1].cmd = "add" /\ ~ ipset_calls[1].ok

\* C8: with a set name given the add comes first and has succeeded before the
\* automaton exists (so before any packet or reset); the del comes only after
\* run() has ended; and once main() is over after a successful add there has
\* been exactly one del, whether run() ended by the reset, by a failed send
\* or by an interrupt.
C8_AddRunRemove ==
  /\ Calls("add") \subseteq {1}
  /\ (ipset_name # None /\ atmt.state # "none") => AddSucceeded
  /\ \A i \in Calls("del") :
       /\ i = 2 /\ AddSucceeded
       /\ atmt.state = "stopped" /\ end_cause \in {"rst", "send_failed", "interrupted"}
  /\ (AddSucceeded /\ pc = "exit") =>
       /\ Cardinality(Calls("del")) = 1
       /\ end_cause \in {"rst", "send_failed", "interrupted"}

C8_Witness ==
  /\ AddSucceeded /\ pc = "exit" /\ end_cause = "send_failed"
  /\ Len(ipset_calls) = 2 /\ ipset_calls[2].cmd = "del"

\* C9: a failed add ends the run with the error: no automaton, no packet
\* handled, no reset, no del; and a failed del raises only after run() ended.
C9_HookFailureIsFatal ==
  /\ AddFailed =>
       /\ pc = "exit" /\ exc = "RuntimeError"
       /\ atmt = NoBreaker /\ n_matched = 0
       /\ Len(ipset_calls) = 1
  /\ \A i \in Calls("del") :
       ~ ipset_calls[i].ok =>
          /\ atmt.state = "stopped" /\ pc = "exit" /\ exc = "RuntimeError"

C9_Witness == AddFailed /\ pc = "exit" /\ exc = "RuntimeError"

\* The rows of tbl that match the criterion of the call.
RowMatches(row) ==
  \/ (arg_port_local # None /\ row.local[2] = arg_port_local[1])
  \/ (arg_port_remote # None /\ row.remote[2] = arg_port_remote[1])

MatchingRows == { i \in DOMAIN tbl : RowMatches(tbl[i]) }

\* The dotted quad of each address of the model.
Dotted(a) ==
  CASE a = 16777343 -> << 127, 0, 0, 1 >>
    [] a = 83886090 -> << 10, 0, 0, 5 >>

\* C10: with a port criterion given, no matching row gives ConnNotFound and
\* no result, two or more give ConnMultipleMatches with all of them (in table
\* order) and no result, and exactly one gives that row's local and remote
\* endpoints.
C10_OutcomeByMatchCount ==
  (pc = "returned" /\ (arg_port_local # None \/ arg_port_remote # None)) =>
     LET n == Cardinality(MatchingRows)
     IN  /\ n = 0 => (exc = "ConnNotFound" /\ local = None /\ remote = None)
         /\ n >= 2 =>
              /\ exc = "ConnMultipleMatches" /\ local = None /\ remote = None
              /\ Len(exc_args) = n
              /\ \A i \in MatchingRows :
                   exc_args[Cardinality({ j \in MatchingRows : j <= i })] = tbl[i]
         /\ n = 1 =>
              LET row == tbl[CHOOSE i \in MatchingRows : TRUE]
              IN  /\ exc = ""
                  /\ local = << Dotted(row.local[1]), row.local[2] >>
                  /\ remote = << Dotted(row.remote[1]), row.remote[2] >>

C10_Witness ==
  /\ pc = "returned" /\ exc = "" /\ Len(tbl) = MaxRows
  /\ Cardinality(MatchingRows) = 1 /\ local # remote


\* C11: when the resolver raises ConnNotFound or ConnMultipleMatches main()
\* is over at once: no ipset command has run, no automaton exists, no packet
\* has been handled and no segment has been sent.
C11_ResolverErrorEndsRun ==
  /\ exc \in {"ConnNotFound", "ConnMultipleMatches"} =>
       /\ pc = "exit" /\ local = None /\ remote = None
       /\ ipset_calls = <<>> /\ ipset = {}
       /\ atmt = NoBreaker /\ n_matched = 0 /\ end_cause = ""
  /\ (ipset_calls # <<>> \/ atmt.state # "none") => (local # None /\ remote # None)

C11_Witness ==
  /\ pc = "exit" /\ exc = "ConnMultipleMatches" /\ Len(exc_args) = MaxRows
  /\ ipset_name # None


\* q carries the ports of p exchanged.
Swapped(p, q) == q.sport = p.dport /\ q.dport = p.sport

\* The segment is recognised and its end on the side of the remote port is
\* answered: the destination when it leaves the local port, else the source.
ResolvesRemoteEnd(p) ==
  /\ pkt_filter(atmt, p) # None
  /\ pkt_filter(atmt, p) = (IF p.sport = atmt.ss_filter_port_local THEN p.dst ELSE p.src)

\* C12: a packet with (sport=L, dport=R) and a packet with (sport=R, dport=L)
\* are both recognised by pkt_filter, and when their source addresses differ
\* the two addresses pkt_filter answers differ (stated for L # R, where the
\* two packets travel in opposite directions).
C12_FilterSymmetricOpposite ==
  (atmt.ss_intercept # None /\ Captured.sport = atmt.ss_filter_port_local
                            /\ Captured.dport = atmt.ss_filter_port_remote
                            /\ Captured.sport # Captured.dport) =>
     \A q \in Packets : Swapped(Captured, q) =>
        /\ pkt_filter(atmt, Captured) # None /\ pkt_filter(atmt, q) # None
        /\ Captured.src # q.src => pkt_filter(atmt, Captured) # pkt_filter(atmt, q)

\* C12 as amended: both packets are recognised; the address answered is the
\* destination of the packet that leaves the local port and the source of the
\* other, so between distinct ports a segment and the segment that answers it
\* resolve to the same address.
C12_FilterSymmetricSameRemote ==
  atmt.ss_intercept # None =>
     \A q \in Packets : Swapped(Captured, q) =>
        /\ ResolvesRemoteEnd(Captured) /\ ResolvesRemoteEnd(q)
        /\ (atmt.ss_filter_port_local # atmt.ss_filter_port_remote
              /\ q.src = Captured.dst /\ q.dst = Captured.src) =>
             pkt_filter(atmt, q) = pkt_filter(atmt, Captured)

C12_Witness ==
  /\ atmt.n_collect = 1 /\ atmt.ss_filter_port_local # atmt.ss_filter_port_remote
  /\ Captured.sport = atmt.ss_filter_port_remote
  /\ Captured.src # Captured.dst /\ atmt.ss_remote = Captured.src


\* C13: every segment handed to send() has ack = 0 and the flags "R" (RST
\* alone, no ACK), whatever seq and ack the captured segment carried and
\* whichever way it travelled.
C13_ResetAckZeroRstOnly ==
  \A i \in DOMAIN atmt.sent : atmt.sent[i].ack = 0 /\ atmt.sent[i].flags = "R"

C13_Witness ==
  /\ atmt.sent # <<>> /\ Captured.dst # atmt.ss_remote
  /\ Captured.seq # Captured.ack /\ Captured.ack # 0 /\ Rst.seq = Captured.ack


\* The end of p on the side of the remote port.
RemoteEnd(p) == IF p.sport = atmt.ss_filter_port_local THEN p.dst ELSE p.src

\* C14: ss_remote is written once, by the first packet of the port pair that
\* is delivered, and with that packet's remote end; from then on no packet, no
\* timeout and no transition changes it, also when a later packet of the port
\* pair resolves to another address.
C14_RemoteSetOnce ==
  /\ [] ( /\ last_match = None => atmt.ss_remote = None
          /\ last_match # None => atmt.ss_remote # None )
  /\ [][ atmt.ss_remote # None => atmt'.ss_remote = atmt.ss_remote ]_vars
  /\ [][ (atmt.ss_remote = None /\ atmt'.ss_remote # None) =>
            /\ atmt'.event = "packet" /\ last_match = None /\ last_match' # None
            /\ atmt'.ss_remote = RemoteEnd(last_match'[1]) ]_vars

C14_Witness ==
  /\ atmt.n_collect = 2 /\ atmt.event = "timer" /\ atmt.sent # <<>>
  /\ RemoteEnd(Captured) # atmt.ss_remote


\* C15: in st_seek and once st_rst_send has run, ss_intercept is the last
\* delivered packet of the port pair (None if there was none), and the segment
\* handed to send() is the one built from that last packet.
C15_KeepsLastMatch ==
  /\ atmt.state \in {"st_seek", "stopped"} => atmt.ss_intercept = last_match
  /\ atmt.sent # <<>> =>
       /\ last_match # None
       /\ Rst = make_rst(last_match[1], atmt.ss_remote)

C15_Witness ==
  /\ atmt.n_collect = 2 /\ atmt.n_term = 1 /\ Len(atmt.sent) = 1
  /\ last_match = atmt.ss_intercept
  /\ RemoteEnd(last_match[1]) # atmt.ss_remote
  /\ Rst.seq = last_match[1].ack /\ Rst.window = last_match[1].window


\* The captured segment of the example: from the local port 4000 to the
\* remote port 80, local to remote.
ExampleCapture ==
  /\ local[2] = 4000 /\ remote[2] = 80
  /\ Captured.src = local[1] /\ Captured.dst = remote[1]
  /\ Captured.sport = 4000 /\ Captured.dport = 80
  /\ Captured.seq = 1000 /\ Captured.ack = 2000 /\ Captured.window = 64

\* C16: the segment handed to send() copies addresses, ports and seq of the
\* captured segment when its destination address is ss_remote, and otherwise
\* has addresses and ports exchanged and the captured ack as seq; the window
\* is the captured one either way. So the captured segment of the example
\* (the only one collected, or one among segments of the connection alone)
\* gives 4000 -> 80, seq 1000, ack 0, RST, window 64.
C16_ResetIsFunctionOfCapture ==
  atmt.sent # <<>> =>
     /\ IF Captured.dst = atmt.ss_remote
          THEN /\ Rst.src = Captured.src /\ Rst.dst = Captured.dst
               /\ Rst.sport = Captured.sport /\ Rst.dport = Captured.dport
               /\ Rst.seq = Captured.seq
          ELSE /\ Rst.src = Captured.dst /\ Rst.dst = Captured.src
               /\ Rst.sport = Captured.dport /\ Rst.dport = Captured.sport
               /\ Rst.seq = Captured.ack
     /\ Rst.window = Captured.window
     /\ (ExampleCapture /\ (atmt.n_collect = 1 \/ onlyConn)) =>
          /\ Rst.src = local[1] /\ Rst.dst = remote[1]
          /\ Rst.sport = 4000 /\ Rst.dport = 80
          /\ Rst.seq = 1000 /\ Rst.ack = 0 /\ Rst.flags = "R" /\ Rst.window = 64

C16_Witness ==
  /\ atmt.sent # <<>> /\ ExampleCapture /\ onlyConn /\ atmt.n_collect = 2
  /\ local[1] # remote[1] /\ Rst.seq = 1000 /\ Rst.sport = 4000


\* C17: whenever ss_intercept is set ss_remote is set (break_link runs before
\* st_collect stores the packet), and st_rst_send has only ever run with both
\* set: it built and handed over a segment and raised no TypeError.
C17_InputsPresent ==
  /\ atmt.ss_intercept # None => atmt.ss_remote # None
  /\ atmt.n_term >= 1 =>
       /\ atmt.ss_intercept # None /\ atmt.ss_remote # None
       /\ atmt.raised # "TypeError" /\ Len(atmt.sent) >= 1

C17_Witness ==
  /\ atmt.n_term = 1 /\ atmt.event = "timer" /\ atmt.path = << "st_rst_send" >>
  /\ atmt.ss_intercept # None /\ atmt.ss_remote # None /\ atmt.raised = ""


\* C18: the delivery of a packet whose port pair is not the connection's
\* leaves the automaton in st_seek with ss_remote, ss_intercept and the
\* segments sent as they were, and raises nothing: run() goes on.
C18_ForeignPacketIgnored ==
  [][ (ignored' /\ ~ tick) =>
         /\ atmt.state = "st_seek" /\ atmt'.state = "st_seek"
         /\ atmt'.ss_remote = atmt.ss_remote
         /\ atmt'.ss_intercept = atmt.ss_intercept
         /\ atmt'.sent = atmt.sent /\ atmt'.n_collect = atmt.n_collect
         /\ atmt'.raised = "" /\ exc' = exc /\ pc' = "run" ]_vars

C18_Witness ==
  /\ ignored /\ atmt.event = "packet" /\ atmt.path = <<>>
  /\ atmt.state = "st_seek" /\ atmt.ss_intercept # None /\ n_matched = 1


\* C19: in both persist modes st_rst_send runs at most once and hands at most
\* one segment to send(), a failed send included; once it has run, run() is
\* over, and nothing that follows (no packet, no timeout, the end of main())
\* changes the automaton: its state, ss_remote, ss_intercept and the segments
\* sent stay as they are.
C19_TerminatingIsTerminal ==
  /\ [] ( /\ Len(atmt.sent) <= 1 /\ atmt.n_term <= 1
          /\ atmt.n_term = 1 =>
               /\ atmt.state = "stopped" /\ pc \in {"del", "exit"}
               /\ Len(atmt.sent) = 1 )
  /\ [][ atmt.n_term >= 1 => atmt' = atmt ]_vars

C19_Witness ==
  /\ atmt.n_term = 1 /\ atmt.raised = "socket.error" /\ Len(atmt.sent) = 1
  /\ atmt.ss_timeout /\ atmt.n_collect = 2 /\ pc = "exit"


\* C20: with persist off st_rst_send is entered only from st_collect, while
\* handling a packet, and a timeout never leads to it; with persist on
\* st_collect always leads back to st_seek and st_rst_send is entered only by
\* the timeout of st_seek, after a packet was collected. main() starts the
\* automaton with persist on, so there a reset is sent only by a timeout
\* after a collected packet.
C20_PathByPersistFlag ==
  /\ [] ( /\ (~ atmt.ss_timeout /\ atmt.n_term >= 1) =>
               /\ atmt.event = "packet"
               /\ atmt.path = << "st_collect", "st_rst_send" >>
          /\ (~ atmt.ss_timeout /\ atmt.event = "timer") =>
               /\ atmt.state = "st_seek" /\ atmt.n_term = 0 /\ atmt.sent = <<>>
          /\ (atmt.ss_timeout /\ atmt.event = "packet" /\ ~ ignored) =>
               /\ atmt.state = "st_seek" /\ atmt.n_term = 0
               /\ atmt.path = << "st_collect", "st_seek" >>
          /\ (atmt.ss_timeout /\ (atmt.n_term >= 1 \/ atmt.sent # <<>>)) =>
               /\ atmt.event = "timer" /\ atmt.path = << "st_rst_send" >>
               /\ atmt.n_collect >= 1 )
  /\ [][ (main_run \/ (atmt.state = "none" /\ atmt'.state # "none")) =>
            (atmt'.ss_timeout /\ atmt'.state = "st_seek") ]_vars

C20_Witness ==
  /\ ipset_name # None /\ atmt.ss_timeout /\ atmt.sent # <<>>
  /\ atmt.event = "timer" /\ atmt.path = << "st_rst_send" >> /\ atmt.n_collect = 1

====
